---- MODULE Spec2Model ----
(***************************************************************************)
(* The toast store of src/lib/state.ts: the notification registry          *)
(* (toasts), the height registry (heights), the module-level id counter    *)
(* (toastsCounter) and the continuation chains that promise() attaches to  *)
(* the promises it tracks.                                                 *)
(*                                                                         *)
(* Encoding of JavaScript values:                                          *)
(*   - an optional value is a set with at most one element: {} is          *)
(*     undefined / an absent key, {v} is the value v;                      *)
(*   - an id is a tagged record, Num(n) or Str(s), so that the number 1    *)
(*     and the string "1" are different ids, as with ===; a string is the  *)
(*     sequence of its characters, so Str(<<>>) is the empty string;       *)
(*   - a message (title) is a sequence of strings; a handler function      *)
(*     applied to an argument is the function's name followed by the       *)
(*     argument, i.e. an uninterpreted injective function.                 *)
(***************************************************************************)
EXTENDS Integers, Sequences, FiniteSets, TLC

VARIABLES
    toasts,         \* state.ts:9   the notification registry, head first
    heights,        \* state.ts:10  the height registry, head first
    toastsCounter,  \* state.ts:6   module-level counter for generated ids
    promises,       \* state.ts:99-158  one closure per promise() call that attached callbacks:
                    \*   data, id and shouldDismiss are the closure's variables, pc is the
                    \*   position in the then/catch/finally chain, outcome how p settled
    last            \* history: the last operation, the id it worked on, and its return value

vars == <<toasts, heights, toastsCounter, promises, last>>

\* Bounds of the model.
MaxCounter == 2
MaxPromises == 1

----------------------------------------------------------------------------
\* Values

Get(o) == CHOOSE x \in o : TRUE

Num(n) == [k |-> "number", n |-> n, s |-> <<>>]
Str(s) == [k |-> "string", n |-> 0, s |-> s]

\* JavaScript truthiness of an optional id: undefined, 0 and "" are falsy.
Truthy(idOpt) ==
    /\ idOpt # {}
    /\ IF Get(idOpt).k = "number" THEN Get(idOpt).n # 0 ELSE Len(Get(idOpt).s) > 0

ToastTypes == {"default", "success", "error", "info", "warning", "loading"}

\* The argument of create: every key optional.
NoData ==
    [id |-> {}, message |-> {}, type |-> {}, dismissable |-> {},
     description |-> {}, component |-> {}]

\* { ...a, ...b }: the keys b supplies win, the others come from a.
Spread(a, b) ==
    [f \in DOMAIN a |-> IF f \in DOMAIN b /\ b[f] # {} THEN b[f] ELSE a[f]]

----------------------------------------------------------------------------
\* create (state.ts:16-63)

\* state.ts:25  typeof data?.id === 'number' || (data.id && data.id?.length > 0)
HasOwnId(data) ==
    /\ data.id # {}
    /\ \/ Get(data.id).k = "number"
       \/ Len(Get(data.id).s) > 0

\* state.ts:24-27  the id of the call: the caller's, or the counter's value
createId(data, counter) ==
    IF HasOwnId(data) THEN Get(data.id) ELSE Num(counter)

\* state.ts:27  toastsCounter++ is evaluated only when the caller's id is not used
createCounter(data, counter) ==
    IF HasOwnId(data) THEN counter ELSE counter + 1

\* state.ts:29
createDismissable(data) ==
    IF data.dismissable = {} THEN TRUE ELSE Get(data.dismissable)

\* state.ts:30
createType(data) ==
    IF data.type = {} THEN "default" ELSE Get(data.type)

\* Mutant of alreadyExists: only the head of the registry is compared.
alreadyExistsAtHead(ts, id) == Len(ts) > 0 /\ ts[1].id = id

\* state.ts:34-36
alreadyExists(ts, id) == \E i \in 1..Len(ts) : ts[i].id = id

\* Mutant of NewToast: a new record is marked as updated.
NewToastMarked(data, id) ==
    [id |-> id, title |-> data.message, type |-> createType(data),
     dismissable |-> createDismissable(data), updated |-> {TRUE},
     description |-> data.description, component |-> data.component,
     message |-> {}]

\* state.ts:59  { ...rest, id, title: message, dismissable, type }; rest has no message key
NewToast(data, id) ==
    [id |-> id, title |-> data.message, type |-> createType(data),
     dismissable |-> createDismissable(data), updated |-> {},
     description |-> data.description, component |-> data.component,
     message |-> {}]

\* state.ts:42-50  { ...toast, ...data, id, title: message, dismissable, type, updated: true }
MergedToast(toast, data, id) ==
    [id |-> id, title |-> data.message, type |-> createType(data),
     dismissable |-> createDismissable(data), updated |-> {TRUE},
     description |-> IF data.description = {} THEN toast.description ELSE data.description,
     component |-> IF data.component = {} THEN toast.component ELSE data.component,
     message |-> IF data.message = {} THEN toast.message ELSE data.message]

\* Mutant of Unmarked: the other records' flags are left as they are.
UnmarkedKept(toast) == toast

\* state.ts:52-55  { ...toast, updated: false }
Unmarked(toast) == [toast EXCEPT !.updated = {FALSE}]

\* Mutant of addToast: the record is appended instead of prepended.
addToastLast(ts, data) == Append(ts, data)

\* state.ts:12-14
addToast(ts, data) == <<data>> \o ts

\* state.ts:39-57  prev.map(...)
updateToasts(ts, data, id) ==
    [i \in 1..Len(ts) |->
        IF ts[i].id = id THEN MergedToast(ts[i], data, id) ELSE Unmarked(ts[i])]

\* Mutant of createToasts: an id that is not in the registry is not added.
createToastsUpdateOnly(ts, data, id) ==
    IF alreadyExists(ts, id) THEN updateToasts(ts, data, id) ELSE ts

\* state.ts:38-60  the registry after create(data) resolved its id to id
createToasts(ts, data, id) ==
    IF alreadyExists(ts, id)
    THEN updateToasts(ts, data, id)
    ELSE addToast(ts, NewToast(data, id))

\* The counter values a create(data) call needs are below the model's bound.
CounterFree(data, counter) == HasOwnId(data) \/ counter < MaxCounter

\* state.ts:16-63  a direct call of create(data), made under the name op
CallCreate(op, data) ==
    /\ CounterFree(data, toastsCounter)
    /\ LET id == createId(data, toastsCounter) IN
        /\ toasts' = createToasts(toasts, data, id)
        /\ toastsCounter' = createCounter(data, toastsCounter)
        /\ last' = [op |-> op, id |-> {id}, hit |-> alreadyExists(toasts, id),
                    ret |-> {id}, p |-> 0, branch |-> "none"]
    /\ UNCHANGED <<heights, promises>>

create(data) ==
    /\ CallCreate("create", data)

\* state.ts:222-227  create({ message, ...data })
toastFunction(msg, data) ==
    /\ CallCreate("toast", Spread([NoData EXCEPT !.message = {msg}], data))

\* state.ts:75-97  create({ ...data, type: <kind>, message })
Typed(data, kind, msg) == [data EXCEPT !.type = {kind}, !.message = {msg}]

message(msg, data) ==
    /\ CallCreate("message", Typed(data, "default", msg))
error(msg, data) ==
    /\ CallCreate("error", Typed(data, "error", msg))
success(msg, data) ==
    /\ CallCreate("success", Typed(data, "success", msg))
info(msg, data) ==
    /\ CallCreate("info", Typed(data, "info", msg))
warning(msg, data) ==
    /\ CallCreate("warning", Typed(data, "warning", msg))
loading(msg, data) ==
    /\ CallCreate("loading", Typed(data, "loading", msg))

----------------------------------------------------------------------------
\* dismiss (state.ts:65-73)

\* Mutant of RemoveToast: the filter's comparison is inverted.
RemoveToastInverted(ts, id) == SelectSeq(ts, LAMBDA t : t.id = id)

\* state.ts:70  prev.filter((toast) => toast.id !== id)
RemoveToast(ts, id) == SelectSeq(ts, LAMBDA t : t.id # id)

\* state.ts:65-73  the registry after dismiss(idOpt)
dismissToasts(ts, idOpt) ==
    IF idOpt = {} THEN <<>> ELSE RemoveToast(ts, Get(idOpt))

\* state.ts:68, 72  return; / return id
dismissReturn(idOpt) == idOpt

\* Mutant of dismiss: the height record goes with the notification.
dismissWithHeight(idOpt) ==
    /\ toasts' = dismissToasts(toasts, idOpt)
    /\ heights' = IF idOpt = {} THEN <<>>
                  ELSE SelectSeq(heights, LAMBDA h : h.toastId # Get(idOpt))
    /\ last' = [op |-> "dismiss", id |-> idOpt,
                hit |-> idOpt # {} /\ alreadyExists(toasts, Get(idOpt)),
                ret |-> dismissReturn(idOpt), p |-> 0, branch |-> "none"]
    /\ UNCHANGED <<toastsCounter, promises>>

\* state.ts:65-73
dismiss(idOpt) ==
    /\ toasts' = dismissToasts(toasts, idOpt)
    /\ last' = [op |-> "dismiss", id |-> idOpt,
                hit |-> idOpt # {} /\ alreadyExists(toasts, Get(idOpt)),
                ret |-> dismissReturn(idOpt), p |-> 0, branch |-> "none"]
    /\ UNCHANGED <<heights, toastsCounter, promises>>

----------------------------------------------------------------------------
\* custom (state.ts:160-168)

\* state.ts:164  data?.id || toastsCounter++
customId(data, counter) ==
    IF Truthy(data.id) THEN Get(data.id) ELSE Num(counter)

customCounter(data, counter) ==
    IF Truthy(data.id) THEN counter ELSE counter + 1

\* state.ts:165  { component, id, ...data }
customData(component, id, data) ==
    Spread([NoData EXCEPT !.component = {component}, !.id = {id}], data)

custom(component, data) ==
    LET id == customId(data, toastsCounter)
        counter == customCounter(data, toastsCounter)
        cdata == customData(component, id, data)
    IN  /\ Truthy(data.id) \/ toastsCounter < MaxCounter
        /\ CounterFree(cdata, counter)
        /\ toasts' = createToasts(toasts, cdata, createId(cdata, counter))
        /\ toastsCounter' = createCounter(cdata, counter)
        /\ last' = [op |-> "custom", id |-> {createId(cdata, counter)},
                    hit |-> alreadyExists(toasts, createId(cdata, counter)),
                    ret |-> {id}, p |-> 0, branch |-> "none"]
        /\ UNCHANGED <<heights, promises>>

----------------------------------------------------------------------------
\* The height registry (state.ts:170-195)

\* state.ts:171
removeHeightFrom(hs, id) == SelectSeq(hs, LAMBDA h : h.toastId # id)

removeHeight(id) ==
    /\ heights' = removeHeightFrom(heights, id)
    /\ last' = [op |-> "removeHeight", id |-> {id},
                hit |-> \E i \in 1..Len(heights) : heights[i].toastId = id,
                ret |-> {}, p |-> 0, branch |-> "none"]
    /\ UNCHANGED <<toasts, toastsCounter, promises>>

\* Mutant of heightExists: only the first record is compared.
heightExistsAtHead(hs, id) == hs # <<>> /\ Head(hs).toastId = id

\* state.ts:175
heightExists(hs, id) == \E i \in 1..Len(hs) : hs[i].toastId = id

\* Mutant of setHeightIn: a replaced record moves to the head.
setHeightInMoveToHead(hs, data) ==
    <<data>> \o SelectSeq(hs, LAMBDA h : h.toastId # data.toastId)

\* state.ts:174-190
setHeightIn(hs, data) ==
    IF ~heightExists(hs, data.toastId)
    THEN <<data>> \o hs
    ELSE [i \in 1..Len(hs) |-> IF hs[i].toastId = data.toastId THEN data ELSE hs[i]]

setHeight(data) ==
    /\ heights' = setHeightIn(heights, data)
    /\ last' = [op |-> "setHeight", id |-> {data.toastId},
                hit |-> heightExists(heights, data.toastId),
                ret |-> {}, p |-> 0, branch |-> "none"]
    /\ UNCHANGED <<toasts, toastsCounter, promises>>

\* Mutant of reset: only the notification registry is emptied.
resetToastsOnly ==
    /\ toasts' = <<>>
    /\ last' = [op |-> "reset", id |-> {},
                hit |-> toasts # <<>> \/ heights # <<>>, ret |-> {},
                p |-> 0, branch |-> "none"]
    /\ UNCHANGED <<heights, toastsCounter, promises>>

\* state.ts:192-195
reset ==
    /\ toasts' = <<>>
    /\ heights' = <<>>
    /\ last' = [op |-> "reset", id |-> {},
                hit |-> toasts # <<>> \/ heights # <<>>, ret |-> {},
                p |-> 0, branch |-> "none"]
    /\ UNCHANGED <<toastsCounter, promises>>

----------------------------------------------------------------------------
\* promise (state.ts:99-158)

\* The handlers of PromiseData: loading is a message; success and error are a
\* literal message or a function to a message; finally is a callback or absent.
\* toast holds the ExternalToast keys of the same object.
Literal(m) == {[kind |-> "literal", value |-> m]}
Function(name) == {[kind |-> "function", value |-> <<name>>]}

\* state.ts:125-128, 134, 143  typeof h === 'function' ? h(arg) : h
HandlerMessage(handler, arg) ==
    IF handler = {} THEN {}
    ELSE IF Get(handler).kind = "function" THEN {Get(handler).value \o arg}
    ELSE {Get(handler).value}

\* What p can resolve to: truthy is the value's truthiness, ok its boolean ok
\* field ({} when it has none), status its status field, repr the value itself
\* as a handler function's argument.
Response(truthy, ok, status, repr) ==
    [truthy |-> truthy, ok |-> ok, status |-> status, repr |-> repr]

\* state.ts:122  response && typeof response.ok === 'boolean' && !response.ok
FailedResponse(response) == response.truthy /\ response.ok = {FALSE}

\* state.ts:127  `HTTP error! status: ${response.status}`
HttpError(response) == <<"HTTP error! status: ">> \o response.status

\* state.ts:107-112  { ...data, promise, type: 'loading', message: data.loading }
\* (the handler keys and the promise key that the spread also copies into the
\* record are carried like description and are not read by the store)
loadingData(data) == [data.toast EXCEPT !.type = {"loading"}, !.message = data.loading]

\* state.ts:129, 135, 144  { id, type, message }
settleData(idOpt, kind, msgOpt) ==
    [NoData EXCEPT !.id = idOpt, !.type = {kind}, !.message = msgOpt]

\* state.ts:106  whether promise(data) creates the loading notification
HasLoading(data) == data.loading # {}

\* Mutant of InitialShouldDismiss: the flag starts false.
InitialShouldDismissNever(idOpt) == FALSE

\* state.ts:117  let shouldDismiss = id !== undefined
InitialShouldDismiss(idOpt) == idOpt # {}

\* state.ts:99-158  the synchronous part of promise(promise, data)
promise(dataOpt) ==
    IF dataOpt = {}
    THEN \* state.ts:100-103
         /\ last' = [op |-> "promise", id |-> {}, hit |-> FALSE, ret |-> {},
                     p |-> 0, branch |-> "nodata"]
         /\ UNCHANGED <<toasts, heights, toastsCounter, promises>>
    ELSE LET data == Get(dataOpt)
             cdata == loadingData(data)
             id == IF HasLoading(data) THEN {createId(cdata, toastsCounter)} ELSE {}
         IN  /\ Len(promises) < MaxPromises
             /\ HasLoading(data) => CounterFree(cdata, toastsCounter)
             /\ toasts' = IF HasLoading(data)
                          THEN createToasts(toasts, cdata, Get(id))
                          ELSE toasts
             /\ toastsCounter' = IF HasLoading(data)
                                 THEN createCounter(cdata, toastsCounter)
                                 ELSE toastsCounter
             /\ promises' = Append(promises,
                    [data |-> data, id |-> id,
                     shouldDismiss |-> InitialShouldDismiss(id),
                     pc |-> "pending", outcome |-> "pending",
                     finallyCalls |-> 0, finallySaw |-> {}])
             /\ last' = [op |-> "promise", id |-> id,
                         hit |-> id # {} /\ alreadyExists(toasts, Get(id)),
                         ret |-> id, p |-> Len(promises) + 1,
                         branch |-> IF HasLoading(data) THEN "loading" ELSE "none"]
             /\ UNCHANGED heights

\* Mutant of thenBranch: the success handler is looked at before the response.
thenBranchSuccessFirst(data, response) ==
    IF data.success # {} THEN "success"
    ELSE IF FailedResponse(response) THEN "error"
    ELSE "none"

\* state.ts:122, 130  the branch the then callback takes
thenBranch(data, response) ==
    IF FailedResponse(response) THEN "error"
    ELSE IF data.success # {} THEN "success"
    ELSE "none"

\* state.ts:124-128, 132-134  the message of the then callback's create
thenMessage(data, response) ==
    IF FailedResponse(response)
    THEN HandlerMessage(data.error, HttpError(response))
    ELSE HandlerMessage(data.success, response.repr)

\* state.ts:139  the branch the catch callback takes
catchBranch(data) == IF data.error # {} THEN "error" ELSE "none"

\* Mutant of catchMessage: the message is taken from the success handler.
catchMessageFromSuccess(data, reason) == HandlerMessage(data.success, reason)

\* state.ts:141-143
catchMessage(data, reason) == HandlerMessage(data.error, reason)

\* A settlement callback of closure i that takes branch, with message msgOpt:
\* state.ts:123, 129 / 131, 135 / 140, 144.  outcome records how p settled.
Settle(op, i, outcome, branch, msgOpt) ==
    LET c == promises[i]
        cdata == settleData(c.id, branch, msgOpt)
        id == createId(cdata, toastsCounter)
    IN  /\ c.pc = "pending"
        /\ IF branch = "none"
           THEN /\ UNCHANGED <<toasts, toastsCounter>>
                /\ promises' = [promises EXCEPT ![i].pc = "settled",
                                                ![i].outcome = outcome]
                /\ last' = [op |-> op, id |-> c.id, hit |-> FALSE, ret |-> {},
                            p |-> i, branch |-> branch]
           ELSE /\ CounterFree(cdata, toastsCounter)
                /\ toasts' = createToasts(toasts, cdata, id)
                /\ toastsCounter' = createCounter(cdata, toastsCounter)
                /\ promises' = [promises EXCEPT ![i].pc = "settled",
                                                ![i].outcome = outcome,
                                                ![i].shouldDismiss = FALSE]
                /\ last' = [op |-> op, id |-> {id}, hit |-> alreadyExists(toasts, id),
                            ret |-> {}, p |-> i, branch |-> branch]
        /\ UNCHANGED heights

\* state.ts:119-137  p resolved to response and the then callback runs
then(i, response) ==
    Settle("then", i, IF FailedResponse(response) THEN "failed" ELSE "resolved",
           thenBranch(promises[i].data, response),
           thenMessage(promises[i].data, response))

\* state.ts:138-146  p rejected with reason and the catch callback runs
catch(i, reason) ==
    Settle("catch", i, "rejected", catchBranch(promises[i].data),
           catchMessage(promises[i].data, reason))

\* Mutant of finallyDismisses: the test is on the id, not on the flag.
finallyDismissesWithId(c) == c.id # {}

\* state.ts:148  whether the finally callback dismisses
finallyDismisses(c) == c.shouldDismiss

\* Mutant of finallyObserves: data.finally is invoked before the dismiss.
finallyObservesBefore(before, after) == before

\* state.ts:148-154  the registry that data.finally?.() is invoked on: the one
\* left by the dismiss of lines 149-150, which comes first
finallyObserves(before, after) == after

\* state.ts:147-155  the finally callback of closure i
finally(i) ==
    LET c == promises[i] IN
        /\ c.pc = "settled"
        /\ toasts' = IF finallyDismisses(c) THEN dismissToasts(toasts, c.id) ELSE toasts
        /\ promises' = [promises EXCEPT
                ![i].pc = "done",
                ![i].id = IF finallyDismisses(c) THEN {} ELSE c.id,
                ![i].finallyCalls = IF c.data.finally THEN @ + 1 ELSE @,
                ![i].finallySaw =
                    IF c.data.finally
                    THEN {c.id # {} /\ alreadyExists(finallyObserves(toasts, toasts'),
                                                    Get(c.id))}
                    ELSE @]
        /\ last' = [op |-> "finally", id |-> c.id,
                    hit |-> c.id # {} /\ alreadyExists(toasts, Get(c.id)),
                    ret |-> {}, p |-> i,
                    branch |-> IF finallyDismisses(c) THEN "dismiss" ELSE "none"]
        /\ UNCHANGED <<heights, toastsCounter>>

----------------------------------------------------------------------------
\* The calls the environment makes.

Hi == <<"hi">>
Bye == <<"bye">>

\* Ids a caller passes: a number that the counter also reaches, a non-empty
\* string, and the empty string (which create does not accept as an id).
CallerIds == {Num(1), Str(<<"a">>), Str(<<>>)}

\* Ids a caller can name in dismiss, removeHeight and setHeight.
KnownIds == {Num(0), Num(1), Str(<<"a">>)}

WithId(data, idOpt) == [data EXCEPT !.id = idOpt]

IdChoices == {{}} \cup {{i} : i \in CallerIds}

\* Argument shapes of create: a message alone, a message with a further
\* caller-supplied field, and a message with dismissable and type.
CreateShapes ==
    { [NoData EXCEPT !.message = {Hi}],
      [NoData EXCEPT !.message = {Bye}, !.description = {"d"}],
      [NoData EXCEPT !.message = {Hi}, !.dismissable = {FALSE}, !.type = {"info"}] }

CreateInputs == {WithId(d, i) : d \in CreateShapes, i \in IdChoices}

\* The data argument of custom: no id, each caller id, and the number 0.
CustomInputs == {WithId(NoData, i) : i \in IdChoices \cup {{Num(0)}}}

\* The ExternalToast argument of the typed wrappers: absent, or an id.
ExternalInputs == {WithId(NoData, i) : i \in {{}, {Num(1)}}}

\* Arguments of promise: every combination of handlers, with and without the
\* caller's own id and dismissable flag; {} is a call without data.
PromiseShapes ==
    [loading : {{}, {<<"L">>}},
     success : {{}, Literal(<<"S">>), Function("success")},
     error : {{}, Literal(<<"E">>), Function("error")},
     finally : BOOLEAN,
     toast : {NoData, [NoData EXCEPT !.id = {Num(1)}, !.dismissable = {FALSE}]}]

PromiseInputs == {{}} \cup {{d} : d \in PromiseShapes}

\* The smaller argument sets of the specification of all operations.
\* state.ts:174  setHeight(data: HeightT)
Heights == {10, 20}
HeightInputs == [toastId : KnownIds, height : Heights]

ThinIds == {{}, {Num(1)}, {Str(<<>>)}}

ThinCreateInputs == {WithId([NoData EXCEPT !.message = {Hi}], i) : i \in ThinIds}

ThinCustomInputs == {WithId(NoData, i) : i \in ThinIds \cup {{Num(0)}}}

ThinPromiseShapes ==
    [loading : {{}, {<<"L">>}},
     success : {{}, Literal(<<"S">>)},
     error : {{}, Literal(<<"E">>)},
     finally : {TRUE},
     toast : {NoData}]

ThinPromiseInputs == {{}} \cup {{d} : d \in ThinPromiseShapes}

\* The arguments of the calls when both registries are driven together.
StoreIds == {{}, {Num(1)}}

StoreCreateInputs == {WithId([NoData EXCEPT !.message = {Hi}], i) : i \in StoreIds}

StorePromiseShapes ==
    [loading : {{}, {<<"L">>}},
     success : {{}, Literal(<<"S">>)},
     error : {{}},
     finally : {TRUE},
     toast : {NoData}]

StorePromiseInputs == {{}} \cup {{d} : d \in StorePromiseShapes}

StoreHeightInputs == [toastId : {Num(0), Num(1)}, height : {10}]

\* What p resolves to: undefined, a value without an ok field, a response with
\* ok = true, a response with ok = false.
Responses ==
    { Response(FALSE, {}, <<"undefined">>, <<"undefined">>),
      Response(TRUE, {}, <<"undefined">>, <<"value">>),
      Response(TRUE, {TRUE}, <<"200">>, <<"response 200">>),
      Response(TRUE, {FALSE}, <<"500">>, <<"response 500">>) }

Reasons == {<<"reason">>}

----------------------------------------------------------------------------

Init ==
    /\ toasts = <<>>
    /\ heights = <<>>
    /\ toastsCounter = 0
    /\ promises = <<>>
    /\ last = [op |-> "init", id |-> {}, hit |-> FALSE, ret |-> {}, p |-> 0,
               branch |-> "none"]

\* Every operation on the notification registry, with the smaller argument sets.
Next ==
    \/ \E data \in ThinCreateInputs : create(data)
    \/ \E data \in ExternalInputs : toastFunction(Hi, data)
    \/ \E data \in ExternalInputs : message(Hi, data)
    \/ \E data \in ExternalInputs : error(Hi, data)
    \/ \E data \in ExternalInputs : success(Hi, data)
    \/ \E data \in ExternalInputs : info(Hi, data)
    \/ \E data \in ExternalInputs : warning(Hi, data)
    \/ \E data \in ExternalInputs : loading(Hi, data)
    \/ \E data \in ThinCustomInputs : custom("Component", data)
    \/ \E idOpt \in {{}, {Num(0)}, {Num(1)}} : dismiss(idOpt)
    \/ \E dataOpt \in ThinPromiseInputs : promise(dataOpt)
    \/ \E i \in 1..Len(promises), response \in Responses : then(i, response)
    \/ \E i \in 1..Len(promises), reason \in Reasons : catch(i, reason)
    \/ \E i \in 1..Len(promises) : finally(i)
    \/ reset

Spec == Init /\ [][Next]_vars

\* create, custom, dismiss and reset, with every argument shape and caller id.
NextCreate ==
    \/ \E data \in CreateInputs : create(data)
    \/ \E data \in CustomInputs : custom("Component", data)
    \/ \E idOpt \in {{}} \cup {{i} : i \in KnownIds} : dismiss(idOpt)
    \/ reset

SpecCreate == Init /\ [][NextCreate]_vars

\* promise and its callbacks, with every handler combination, next to calls
\* of success and dismiss that may hit the same ids.
NextPromise ==
    \/ \E dataOpt \in PromiseInputs : promise(dataOpt)
    \/ \E i \in 1..Len(promises), response \in Responses : then(i, response)
    \/ \E i \in 1..Len(promises), reason \in Reasons : catch(i, reason)
    \/ \E i \in 1..Len(promises) : finally(i)
    \/ \E data \in ExternalInputs : success(Hi, data)
    \/ \E idOpt \in {{}} \cup {{i} : i \in KnownIds} : dismiss(idOpt)

SpecPromise == Init /\ [][NextPromise]_vars

\* state.ts:197-243  every exported operation, on both registries
NextStore ==
    \/ \E data \in StoreCreateInputs : create(data)
    \/ toastFunction(Hi, NoData)
    \/ message(Hi, NoData)
    \/ error(Hi, NoData)
    \/ success(Hi, NoData)
    \/ info(Hi, NoData)
    \/ warning(Hi, NoData)
    \/ loading(Hi, NoData)
    \/ \E idOpt \in StoreIds : custom("Component", WithId(NoData, idOpt))
    \/ \E idOpt \in {{}, {Num(0)}, {Num(1)}} : dismiss(idOpt)
    \/ \E dataOpt \in StorePromiseInputs : promise(dataOpt)
    \/ \E i \in 1..Len(promises), response \in Responses : then(i, response)
    \/ \E i \in 1..Len(promises), reason \in Reasons : catch(i, reason)
    \/ \E i \in 1..Len(promises) : finally(i)
    \/ \E data \in StoreHeightInputs : setHeight(data)
    \/ \E id \in {Num(0), Num(1)} : removeHeight(id)
    \/ reset

SpecStore == Init /\ [][NextStore]_vars

\* state.ts:170-195  the height registry on its own
NextHeights ==
    \/ \E data \in HeightInputs : setHeight(data)
    \/ \E id \in KnownIds : removeHeight(id)
    \/ reset

SpecHeights == Init /\ [][NextHeights]_vars

\* state.ts:147-155  a settled chain runs its finally callback: the callback
\* is a queued microtask of a settled promise, which the event loop runs
FairPromise == \A i \in 1..MaxPromises :
    WF_vars(i \in 1..Len(promises) /\ finally(i))

SpecPromiseFair == SpecPromise /\ FairPromise

----------------------------------------------------------------------------
\* Vocabulary of the properties

Has(ts, id) == \E i \in 1..Len(ts) : ts[i].id = id

At(ts, id) == ts[CHOOSE i \in 1..Len(ts) : ts[i].id = id]

\* The operations that are one call of create, and the steps of promise that
\* made one.
CreateOps ==
    {"create", "toast", "message", "error", "success", "info", "warning",
     "loading", "custom"}

CreateCalled(l) ==
    \/ l.op \in CreateOps
    \/ l.op \in {"promise", "then", "catch"} /\ l.branch \in {"loading", "success", "error"}

\* ts without its k-th record
Without(ts, k) == SubSeq(ts, 1, k - 1) \o SubSeq(ts, k + 1, Len(ts))

----------------------------------------------------------------------------
\* C1: the notification registry never holds two records with the same id,
\* whatever sequence of create, the typed wrappers, custom, promise and its
\* settlement callbacks, dismiss and reset has run.
C1_UniqueIds ==
    \A i, j \in 1..Len(toasts) : i # j => toasts[i].id # toasts[j].id

\* A settlement callback has updated a record in place, next to another record.
C1_Witness ==
    /\ last.op = "then"
    /\ last.hit
    /\ Len(toasts) = 2

\* C2: a create call whose id identifies a record of the registry leaves
\* exactly that record with updated = true and every other record with
\* updated = false, and keeps the registry's length and the order of its ids.
C2_UpdateMarksExactlyOne ==
    [][ (CreateCalled(last') /\ last'.hit) =>
            /\ Len(toasts') = Len(toasts)
            /\ \A i \in 1..Len(toasts) :
                /\ toasts'[i].id = toasts[i].id
                /\ toasts'[i].updated =
                      IF toasts[i].id = Get(last'.id) THEN {TRUE} ELSE {FALSE} ]_vars

\* The middle record of three has been updated by create.
C2_Witness ==
    /\ last.op = "create"
    /\ last.hit
    /\ Len(toasts) = 3
    /\ toasts[2].id = Get(last.id)
    /\ toasts[2].updated = {TRUE}
    /\ toasts[1].updated = {FALSE}
    /\ toasts[3].updated = {FALSE}

\* C3 (as claimed): a create call with the id of an existing record is a
\* shallow merge: every field the call's data supplies takes the new value
\* (the message becoming the title), and every field the data does not supply
\* keeps the value the record had before the call.
C3_ShallowMerge ==
    [][ (last'.op = "create" /\ last'.hit) =>
          \A data \in CreateInputs : create(data) =>
            LET old == At(toasts, createId(data, toastsCounter))
                new == At(toasts', createId(data, toastsCounter))
            IN  /\ new.title = IF data.message # {} THEN data.message ELSE old.title
                /\ new.type = IF data.type # {} THEN Get(data.type) ELSE old.type
                /\ new.dismissable =
                      IF data.dismissable # {} THEN Get(data.dismissable)
                      ELSE old.dismissable
                /\ new.description =
                      IF data.description # {} THEN data.description
                      ELSE old.description
                /\ new.component =
                      IF data.component # {} THEN data.component ELSE old.component ]_vars

\* C4: a create call whose id is not in the registry puts the new record at
\* the head, with that id, with kind 'default' unless a kind was given and
\* dismissable = true unless a value was given; the records that were there
\* follow it unchanged and in order, the length grows by one, and the call
\* returns the new record's id.
C4_CreatePrepends ==
    [][ /\ (CreateCalled(last') /\ ~last'.hit) =>
            /\ Len(toasts') = Len(toasts) + 1
            /\ Tail(toasts') = toasts
            /\ Head(toasts').id = Get(last'.id)
            /\ ~Has(toasts, Head(toasts').id)
        /\ (last'.op = "create" /\ ~last'.hit) =>
            \A data \in CreateInputs : create(data) =>
                /\ last'.ret = {Head(toasts').id}
                /\ (data.id # {} /\ data.id # {Str(<<>>)}) =>
                        Head(toasts').id = Get(data.id)
                /\ Head(toasts').type =
                      IF data.type = {} THEN "default" ELSE Get(data.type)
                /\ Head(toasts').dismissable =
                      IF data.dismissable = {} THEN TRUE ELSE Get(data.dismissable) ]_vars

\* create has put an 'info', non-dismissable record in front of two others.
C4_Witness ==
    /\ last.op = "create"
    /\ ~last.hit
    /\ Len(toasts) = 3
    /\ Head(toasts).type = "info"
    /\ Head(toasts).dismissable = FALSE
    /\ last.ret = {Head(toasts).id}

\* C5: dismiss() leaves the registry empty and returns undefined; dismiss(id)
\* removes exactly the record with that id (nothing when there is none), keeps
\* the other records unchanged and in order, and returns id.
C5_Dismiss ==
    [][ last'.op = "dismiss" =>
            IF last'.id = {}
            THEN toasts' = <<>> /\ last'.ret = {}
            ELSE /\ last'.ret = last'.id
                 /\ IF Has(toasts, Get(last'.id))
                    THEN \E k \in 1..Len(toasts) :
                            /\ toasts[k].id = Get(last'.id)
                            /\ toasts' = Without(toasts, k)
                    ELSE toasts' = toasts ]_vars

\* dismiss(id) has removed one record of three.
C5_Witness ==
    /\ last.op = "dismiss"
    /\ last.id # {}
    /\ last.hit
    /\ Len(toasts) = 2

\* The message a handler gives for an argument: the literal, or the function's
\* result.
Given(handler, arg) ==
    IF Get(handler).kind = "function"
    THEN {Get(handler).value \o arg}
    ELSE {Get(handler).value}

\* C6: promise(p, data) with a loading and a success handler, p resolving to a
\* value that is not a failed response: the call creates a loading-kind record
\* with the returned id; the then callback turns the record with that id into
\* success kind, titled by the success handler (the literal, or the function
\* applied to the resolved value); the finally callback leaves the registry
\* as it is.
C6_LoadingThenSuccess ==
    [][ /\ (last'.op = "promise" /\ last'.branch = "loading") =>
            LET c == promises'[last'.p] IN
                /\ last'.ret # {}
                /\ c.id = last'.ret
                /\ Has(toasts', Get(last'.ret))
                /\ At(toasts', Get(last'.ret)).type = "loading"
                /\ At(toasts', Get(last'.ret)).title = c.data.loading
        /\ last'.op = "then" =>
            LET c == promises[last'.p] IN
            \A response \in Responses :
                ( /\ then(last'.p, response)
                  /\ c.data.loading # {}
                  /\ c.data.success # {}
                  /\ ~(response.truthy /\ response.ok = {FALSE}) ) =>
                    /\ Has(toasts', Get(c.id))
                    /\ At(toasts', Get(c.id)).type = "success"
                    /\ At(toasts', Get(c.id)).title = Given(c.data.success, response.repr)
        /\ last'.op = "finally" =>
            LET c == promises[last'.p] IN
                ( /\ c.data.loading # {}
                  /\ c.data.success # {}
                  /\ c.outcome = "resolved" ) =>
                    toasts' = toasts ]_vars

\* The chain of a promise with loading and a success function has run to its
\* end: the record is of success kind, titled success(value).
C6_Witness ==
    /\ last.op = "finally"
    /\ promises[last.p].pc = "done"
    /\ promises[last.p].data.loading # {}
    /\ promises[last.p].data.success = Function("success")
    /\ promises[last.p].outcome = "resolved"
    /\ Has(toasts, Get(last.id))
    /\ At(toasts, Get(last.id)).type = "success"
    /\ At(toasts, Get(last.id)).title = {<<"success", "value">>}

\* C7: promise(p, data) with a loading and an error handler, p rejecting: the
\* catch callback turns the record with the loading notification's id into
\* error kind, titled by the error handler (the literal, or the function
\* applied to the rejection value), and the finally callback does not
\* dismiss it.
C7_LoadingThenError ==
    [][ /\ last'.op = "catch" =>
            LET c == promises[last'.p] IN
            \A reason \in Reasons :
                ( /\ catch(last'.p, reason)
                  /\ c.data.loading # {}
                  /\ c.data.error # {} ) =>
                    /\ Has(toasts', Get(c.id))
                    /\ At(toasts', Get(c.id)).type = "error"
                    /\ At(toasts', Get(c.id)).title = Given(c.data.error, reason)
        /\ last'.op = "finally" =>
            LET c == promises[last'.p] IN
                ( /\ c.data.loading # {}
                  /\ c.data.error # {}
                  /\ c.outcome = "rejected" ) =>
                    toasts' = toasts ]_vars

\* The chain of a rejected promise with loading and an error function has run
\* to its end: the record is of error kind, titled error(reason).
C7_Witness ==
    /\ last.op = "finally"
    /\ promises[last.p].pc = "done"
    /\ promises[last.p].data.loading # {}
    /\ promises[last.p].data.error = Function("error")
    /\ promises[last.p].outcome = "rejected"
    /\ Has(toasts, Get(last.id))
    /\ At(toasts, Get(last.id)).type = "error"
    /\ At(toasts, Get(last.id)).title = {<<"error", "reason">>}

\* C8 (as claimed): promise(p, data) with no loading, success or error handler
\* returns undefined, and none of its steps adds a record to the registry,
\* however p settles.
C8_NoHandlerNoNotification ==
    [][ (last'.op \in {"promise", "then", "catch", "finally"} /\ last'.p # 0) =>
            LET d == promises'[last'.p].data IN
                (d.loading = {} /\ d.success = {} /\ d.error = {}) =>
                    /\ toasts' = toasts
                    /\ last'.op = "promise" => last'.ret = {} ]_vars

\* C9: for a promise that created a loading notification, the finally callback
\* dismisses the record with that id when the settlement made no transition (p
\* resolved to a value that is not a failed response and there is no success
\* handler, or p rejected and there is no error handler), and changes nothing
\* when a transition was made; a transition leaves the record in a kind other
\* than loading.
C9_FinallyDismissesUntransitioned ==
    [][ /\ last'.op = "finally" =>
            LET c == promises[last'.p]
                noTransition ==
                    \/ c.outcome = "resolved" /\ c.data.success = {}
                    \/ c.outcome = "rejected" /\ c.data.error = {}
            IN  c.data.loading # {} =>
                    IF noTransition
                    THEN /\ ~Has(toasts', Get(c.id))
                         /\ \A k \in 1..Len(toasts) :
                                toasts[k].id # Get(c.id) =>
                                    \E m \in 1..Len(toasts') : toasts'[m] = toasts[k]
                         /\ Len(toasts') =
                                Len(toasts) - (IF Has(toasts, Get(c.id)) THEN 1 ELSE 0)
                    ELSE toasts' = toasts
        /\ (last'.op \in {"then", "catch"} /\ last'.branch # "none") =>
            LET c == promises[last'.p] IN
                c.data.loading # {} =>
                    /\ Has(toasts', Get(c.id))
                    /\ At(toasts', Get(c.id)).type \in {"success", "error"} ]_vars

\* The finally callback of a rejected promise without error handler has
\* removed the loading record and left another record in the registry.
C9_Witness ==
    /\ last.op = "finally"
    /\ last.branch = "dismiss"
    /\ last.hit
    /\ promises[last.p].outcome = "rejected"
    /\ promises[last.p].data.error = {}
    /\ ~Has(toasts, Get(last.id))
    /\ Len(toasts) = 1

\* C10: when p resolves to a value with a boolean ok field equal to false, the
\* then callback takes the error transition and not the success one, also
\* with a success handler: the record with the loading id becomes error kind,
\* titled by the error handler (the literal, or the function applied to the
\* 'HTTP error! status: ...' message; undefined without a handler), and no
\* record becomes success kind.
C10_FailedResponseIsError ==
    [][ last'.op = "then" =>
            LET c == promises[last'.p] IN
            \A response \in Responses :
                ( /\ then(last'.p, response)
                  /\ response.truthy
                  /\ response.ok = {FALSE} ) =>
                    /\ last'.branch = "error"
                    /\ \A k \in 1..Len(toasts') :
                          toasts'[k].type = "success" =>
                              /\ Has(toasts, toasts'[k].id)
                              /\ At(toasts, toasts'[k].id).type = "success"
                    /\ c.id # {} =>
                          /\ Has(toasts', Get(c.id))
                          /\ At(toasts', Get(c.id)).type = "error"
                          /\ At(toasts', Get(c.id)).title =
                                IF c.data.error = {} THEN {}
                                ELSE Given(c.data.error,
                                           <<"HTTP error! status: ">> \o response.status) ]_vars

\* A promise with loading, a success handler and an error function resolved to
\* a response with ok = false: the record is of error kind, titled by the
\* error function applied to the HTTP error message.
C10_Witness ==
    /\ last.op = "then"
    /\ last.branch = "error"
    /\ promises[last.p].outcome = "failed"
    /\ promises[last.p].data.success # {}
    /\ promises[last.p].data.loading # {}
    /\ promises[last.p].data.error = Function("error")
    /\ Has(toasts, Get(last.id))
    /\ At(toasts, Get(last.id)).type = "error"
    /\ At(toasts, Get(last.id)).title = {<<"error", "HTTP error! status: ", "500">>}

\* C11: promise() has no cancellation. While the chain of a closure is
\* pending its then and catch callbacks can run whatever has been dismissed,
\* and a callback that makes a transition for a loading id that is no longer
\* in the registry puts a record with that id back, at the head, in success
\* or error kind.
C11_SettlementReaddsDismissed ==
    /\ [](\A i \in 1..Len(promises) :
            (promises[i].pc = "pending" /\ promises[i].id # {}) =>
                /\ ENABLED (\E response \in Responses : then(i, response))
                /\ ENABLED (\E reason \in Reasons : catch(i, reason)))
    /\ [][ (last'.op \in {"then", "catch"} /\ last'.branch # "none") =>
            LET c == promises[last'.p] IN
                (c.id # {} /\ ~Has(toasts, Get(c.id))) =>
                    /\ Len(toasts') = Len(toasts) + 1
                    /\ Head(toasts').id = Get(c.id)
                    /\ Head(toasts').type \in {"success", "error"}
                    /\ Head(toasts').type = last'.branch
                    /\ Tail(toasts') = toasts ]_vars

\* The loading record of a promise was removed while p was pending, and the
\* then callback has put a success record with the same id back.
C11_Witness ==
    /\ last.op = "then"
    /\ last.branch = "success"
    /\ ~last.hit
    /\ promises[last.p].data.loading # {}
    /\ promises[last.p].id = last.id
    /\ Has(toasts, Get(last.id))
    /\ At(toasts, Get(last.id)).type = "success"

\* C12: for every promise(p, data) call with data whose p settles,
\* data.finally is invoked exactly once whatever the outcome: never before
\* the settlement callback has run, once when the finally callback of the
\* chain runs, which a settled chain always does, and never again. It is
\* invoked after the auto-dismiss of that callback has been applied.
C12_FinallyOnce ==
    /\ [](\A i \in 1..Len(promises) :
            LET c == promises[i] IN
                /\ c.finallyCalls = IF c.pc = "done" /\ c.data.finally THEN 1 ELSE 0
                /\ c.pc = "done" => c.outcome \in {"resolved", "failed", "rejected"}
                /\ c.pc = "pending" <=> c.outcome = "pending")
    /\ [][ last'.op = "finally" =>
            LET c == promises[last'.p] IN
                /\ c.pc = "settled"
                /\ (c.data.finally /\ last'.branch = "dismiss") =>
                        promises'[last'.p].finallySaw = {FALSE}
                /\ (c.data.finally /\ last'.branch = "none") =>
                        promises'[last'.p].finallySaw =
                            {c.id # {} /\ Has(toasts, Get(c.id))} ]_vars
    /\ \A i \in 1..MaxPromises :
            (i \in 1..Len(promises) /\ promises[i].pc = "settled")
                ~> (/\ i \in 1..Len(promises)
                    /\ promises[i].pc = "done"
                    /\ promises[i].data.finally => promises[i].finallyCalls = 1)

\* A chain whose finally callback dismissed the loading record has invoked
\* data.finally once, on a registry without that record.
C12_Witness ==
    /\ last.op = "finally"
    /\ last.branch = "dismiss"
    /\ last.hit
    /\ promises[last.p].data.finally
    /\ promises[last.p].finallyCalls = 1
    /\ promises[last.p].finallySaw = {FALSE}
    /\ ~Has(toasts, Get(last.id))

\* The position of the record of toastId id in the height registry hs.
HeightAt(hs, id) == CHOOSE i \in 1..Len(hs) : hs[i].toastId = id

\* C13: the height registry never holds two records with the same toastId,
\* after any sequence of setHeight, removeHeight and reset.
C13_UniqueToastIds ==
    \A i, j \in 1..Len(heights) :
        heights[i].toastId = heights[j].toastId => i = j

\* setHeight was called for a toastId that already had a record, next to
\* the record of another toastId.
C13_Witness ==
    /\ last.op = "setHeight"
    /\ last.hit
    /\ Len(heights) >= 2
    /\ heightExists(heights, Get(last.id))

\* C14: setHeight for a toastId without a record puts the new record at the
\* head and keeps the others in order; for a toastId with a record it puts
\* the supplied record at the position of the old one, with the length, the
\* order and the other records unchanged.
C14_SetHeight ==
    [][ last'.op = "setHeight" =>
            \A data \in HeightInputs : setHeight(data) =>
                IF heightExists(heights, data.toastId)
                THEN /\ Len(heights') = Len(heights)
                     /\ \A i \in 1..Len(heights) :
                            heights'[i] = IF i = HeightAt(heights, data.toastId)
                                          THEN data ELSE heights[i]
                ELSE /\ Len(heights') = Len(heights) + 1
                     /\ Head(heights') = data
                     /\ Tail(heights') = heights ]_vars

\* setHeight replaced the height of a record that is not at the head.
C14_Witness ==
    /\ last.op = "setHeight"
    /\ last.hit
    /\ Len(heights) = 3
    /\ HeightAt(heights, Get(last.id)) = 2
    /\ heights[2].height = 20

\* C15: reset() leaves both registries empty, from any state. After it the
\* notification registry becomes non-empty again only by a call that
\* creates a notification or by the then or catch callback of a promise
\* that was pending: the finally callback, dismiss, reset and the height
\* operations never put a record into an empty registry.
C15_Reset ==
    [][ /\ last'.op = "reset" => (toasts' = <<>> /\ heights' = <<>>)
        /\ (toasts = <<>> /\ toasts' # <<>>) =>
                \/ last'.op \in CreateOps
                \/ last'.op = "promise" /\ last'.branch = "loading"
                \/ /\ last'.op \in {"then", "catch"}
                   /\ last'.branch \in {"success", "error"}
                   /\ promises[last'.p].pc = "pending"
                   /\ toasts' = <<At(toasts', Get(last'.id))>>
        /\ (heights = <<>> /\ heights' # <<>>) => last'.op = "setHeight" ]_vars

\* reset() has emptied registries that held records, while a promise with a
\* loading notification is still pending.
C15_Witness ==
    /\ last.op = "reset"
    /\ last.hit
    /\ toasts = <<>>
    /\ heights = <<>>
    /\ \E i \in 1..Len(promises) :
            promises[i].pc = "pending" /\ promises[i].id # {}

\* C16: every create call that supplies no id adds a new record: the
\* registry grows by exactly one and the returned id is not the id of any
\* record that was there before the call, whatever explicit numeric ids
\* earlier calls used and whatever was dismissed or reset in between.
C16_CreateWithoutIdAdds ==
    [][ last'.op = "create" =>
            \A data \in CreateInputs : (data.id = {} /\ create(data)) =>
                /\ Len(toasts') = Len(toasts) + 1
                /\ ~Has(toasts, Get(last'.ret)) ]_vars

\* C17: custom(component, data) returns the id of the record it created or
\* updated: after the call the registry holds a record with the returned id
\* that carries the component, for every data.id (absent, a non-empty
\* string, the empty string, a positive number, 0), and the call consumes at
\* most one counter value.
C17_CustomReturnsRecordId ==
    [][ last'.op = "custom" =>
            /\ Has(toasts', Get(last'.ret))
            /\ At(toasts', Get(last'.ret)).component = {"Component"}
            /\ toastsCounter' <= toastsCounter + 1 ]_vars

\* C18: at most one record has updated = true in every reachable state. A
\* record with updated = true keeps the flag when a new notification with
\* another id is prepended, and a record that stays in the registry loses
\* the flag only in a create call that updates another existing record.
C18_OneUpdated ==
    /\ [](\A i, j \in 1..Len(toasts) :
            (toasts[i].updated = {TRUE} /\ toasts[j].updated = {TRUE}) => i = j)
    /\ [][ \A k \in 1..Len(toasts) : toasts[k].updated = {TRUE} =>
            /\ (CreateCalled(last') /\ ~last'.hit) =>
                    /\ Has(toasts', toasts[k].id)
                    /\ At(toasts', toasts[k].id) = toasts[k]
                    /\ Len(toasts') = Len(toasts) + 1
            /\ (Has(toasts', toasts[k].id)
                    /\ At(toasts', toasts[k].id).updated # {TRUE}) =>
                    /\ CreateCalled(last')
                    /\ last'.hit
                    /\ Get(last'.id) # toasts[k].id
                    /\ At(toasts', Get(last'.id)).updated = {TRUE} ]_vars

\* A create call has updated an existing record while another record held
\* the flag: the flag has moved.
C18_Witness ==
    /\ last.op = "create"
    /\ last.hit
    /\ Len(toasts) >= 2
    /\ At(toasts, Get(last.id)).updated = {TRUE}
    /\ \E k \in 1..Len(toasts) :
            toasts[k].id # Get(last.id) /\ toasts[k].updated = {FALSE}

\* C19: the two registries are independent. create, the wrappers, custom,
\* promise with its callbacks and dismiss leave the height registry as it is;
\* setHeight and removeHeight leave the notification registry as it is; only
\* reset changes both in one step. The height record of a notification stays
\* after the notification is dismissed, until removeHeight or reset.
C19_IndependentRegistries ==
    [][ /\ (last'.op \in CreateOps \cup {"promise", "then", "catch", "finally", "dismiss"})
                => heights' = heights
        /\ last'.op \in {"setHeight", "removeHeight"}
                => (toasts' = toasts /\ toastsCounter' = toastsCounter)
        /\ (toasts' # toasts /\ heights' # heights) => last'.op = "reset"
        /\ \A k \in 1..Len(heights) :
                ~heightExists(heights', heights[k].toastId)
                    => last'.op \in {"removeHeight", "reset"} ]_vars

\* A notification that has a height record was dismissed, and the height
\* record is still there.
C19_Witness ==
    /\ last.op = "dismiss"
    /\ last.hit
    /\ ~Has(toasts, Get(last.id))
    /\ heightExists(heights, Get(last.id))

====
